---- MODULE Spec2Model ----
(***************************************************************************)
(* The delete-account edge function (organization deprovisioning) of the   *)
(* super-admin dashboard, as a state machine.  One action per awaited      *)
(* remote call of the serve handler; the synchronous code that follows an  *)
(* await up to the next await (or to the response) is part of that action. *)
(* Two handler instances may be in flight at the same time (the runtime    *)
(* serves requests concurrently and the handler takes no lock).            *)
(***************************************************************************)
EXTENDS Integers, Sequences, FiniteSets, TLC

\* ------------------------------------------------------------------ bounds
\* Number of member accounts whose profile is linked to organization org1.
MaxMembers == 2

\* ------------------------------------------------------------- vocabulary
\* JavaScript null / undefined.
Null == "null"

\* Handler instances that can be in flight together.
Invocations == {"a", "b"}

\* Identity accounts: the super admin and the members of org1.
SuperAdmin == "sa"
Members == { "m" \o ToString(i) : i \in 1..MaxMembers }
MemberSeq == [i \in 1..MaxMembers |-> "m" \o ToString(i)]
Accounts == {SuperAdmin} \cup Members

\* Organization rows at the start.
Orgs == {"org1", "org2"}

\* Bearer credentials a request can carry, and the account each stands for.
Tokens == {"tok_none", "tok_sa", "tok_m1"}
TokenUser(tok) ==
    CASE tok = "tok_sa" -> SuperAdmin
      [] tok = "tok_m1" -> "m1"
      [] OTHER -> Null

\* Request bodies: unparseable JSON, a JSON object without organizationId,
\* one with an empty organizationId, or one naming an id.
Unparseable == "<unparseable>"
Bodies == {Unparseable, Null, ""} \cup Orgs

\* Values of the SERVICE_ROLE_KEY environment variable: unset, set to the
\* empty string, or set to a key.
KeyValues == {Null, "", "service-role-key"}

\* An organization id that matches no row, and the bodies with it.
UnknownOrg == "org0"
AnyBodies == Bodies \cup {UnknownOrg}

\* Contents of table user_profiles, in row order.  Every member is linked to
\* org1 and org2 has no linked profile.  In the first table the super admin
\* belongs to no organization; in the second the super admin's own profile
\* points at org1 too, and org1 has one more row that carries no user_id.
MemberRows ==
    [i \in 1..MaxMembers |->
       [user_id |-> MemberSeq[i], role |-> "member",
        current_organization_id |-> "org1"]]

ProfileTables ==
    { << [user_id |-> SuperAdmin, role |-> "super_admin",
          current_organization_id |-> Null] >> \o MemberRows,
      << [user_id |-> SuperAdmin, role |-> "super_admin",
          current_organization_id |-> "org1"],
         [user_id |-> Null, role |-> "member",
          current_organization_id |-> "org1"] >> \o MemberRows }

\* -------------------------------------------------------------------- state
VARIABLES
    organizations,     \* ids of the rows of table organizations
    user_profiles,     \* table user_profiles (sequence of rows)
    authUsers,         \* identity accounts held by the identity provider
    SERVICE_ROLE_KEY,  \* Deno.env SERVICE_ROLE_KEY
    pc,                \* per invocation: the await the handler is parked at
    req,               \* per invocation: the request (method, token, body)
    user,              \* per invocation: `user` of line 24
    organizationId,    \* per invocation: `organizationId` of line 42
    supabaseAdmin,     \* per invocation: the privileged client exists
    users,             \* per invocation: rows of `users` of line 91
    usersNull,         \* per invocation: `users` is null (lookup errored)
    idx,               \* per invocation: position of the for-loop in users
    calls,             \* per invocation: remote calls issued so far, in order
    response,          \* per invocation: the Response returned, if any
    companies,         \* CompanyTable: ids of the rows displayed, in order
    loading,           \* CompanyTable: the initial fetch has not returned
    deleteModalOpen,   \* CompanyTable: the confirmation modal is open
    companyToDelete,   \* CompanyTable: the selected company, or null
    isDeleting,        \* CompanyTable: the flag handed to the modal
    confirm,           \* per invocation: the confirmDelete call awaiting it
    lastWrite,         \* the dashboard operation that last wrote a table
    support_tickets,   \* table support_tickets: ticket id -> status
    SupportTicketList, \* SupportTicketList: its state and fetches in flight
    TicketDetailModal, \* TicketDetailModal: its state and updates in flight
    organization_features,  \* table organization_features, rows of org1
    FeatureManagementModal, \* FeatureManagementModal: state, load and save
    session,           \* the identity provider's session held by the client
    App,               \* App: user and loading
    LoginForm          \* LoginForm: state and position of handleLogin

\* The state of the other views of the dashboard and of the tables they use.
views == << support_tickets, SupportTicketList, TicketDetailModal,
           organization_features, FeatureManagementModal, session, App,
           LoginForm >>

\* The ticket views and their table.
ticketViews == << support_tickets, SupportTicketList, TicketDetailModal >>

\* The feature modal and its table.
featureViews == << organization_features, FeatureManagementModal >>

\* The session, App and the login form.
loginViews == << session, App, LoginForm >>

vars == << organizations, user_profiles, authUsers, SERVICE_ROLE_KEY, pc, req,
           user, organizationId, supabaseAdmin, users, usersNull, idx, calls,
           response, companies, loading, deleteModalOpen, companyToDelete,
           isDeleting, confirm, lastWrite, views >>

stores == << organizations, user_profiles, authUsers, SERVICE_ROLE_KEY >>

\* The state of the dashboard client.
dashboard == << companies, loading, deleteModalOpen, companyToDelete,
                isDeleting, confirm, lastWrite, views >>

\* The state of CompanyTable.
dashboardTable == << companies, loading, deleteModalOpen, companyToDelete,
                     isDeleting, confirm, lastWrite >>

\* The state of the handler instances.
handler == << pc, req, user, organizationId, supabaseAdmin, users, usersNull,
              idx, calls, response >>

\* ------------------------------------------------------------ the responses
corsHeaders == "Access-Control-Allow-Origin: *"

NoResponse == [status |-> 0, message |-> Null, error |-> Null,
               details |-> Null, headers |-> Null, text |-> Null]

\* Variants of the responses of lines 11-13 and 129-135: a preflight answer
\* without the CORS headers, a success without content.
PreflightResponse_noCors ==
    [status |-> 200, message |-> Null, error |-> Null, details |-> Null,
     headers |-> Null, text |-> "ok"]

SuccessResponse_noContent ==
    [status |-> 204, message |-> Null, error |-> Null, details |-> Null,
     headers |-> corsHeaders, text |-> Null]

PreflightResponse ==
    [status |-> 200, message |-> Null, error |-> Null, details |-> Null,
     headers |-> corsHeaders, text |-> "ok"]

SuccessResponse ==
    [status |-> 200,
     message |-> "Organization and associated accounts deleted successfully",
     error |-> Null, details |-> Null, headers |-> corsHeaders, text |-> Null]

\* An envelope whose status tells the kinds of failure apart.
ErrorResponse_byKind(msg) ==
    [status |-> IF msg = "Unauthorized" THEN 401 ELSE 400,
     message |-> Null, error |-> msg,
     details |-> "Check Supabase Function Logs for more info",
     headers |-> corsHeaders, text |-> Null]

\* The catch block: every thrown error becomes the same 400 envelope.
ErrorResponse(msg) ==
    [status |-> 400, message |-> Null, error |-> msg,
     details |-> "Check Supabase Function Logs for more info",
     headers |-> corsHeaders, text |-> Null]

\* Messages of the errors the handler throws.
MsgUnauthorized == "Unauthorized"
MsgNotSuperAdmin == "Unauthorized: Only Super Admins can perform this action"
MsgInvalidBody == "Invalid request body"
MsgIdRequired == "Organization ID is required"
MsgNoKey == "Server misconfiguration: Service Role Key is missing"
MsgOrgNotFound == "Organization not found"

\* Error messages a failing data-store call can carry; the message of
\* `.single()` when the filter matches no row; the message of a failing
\* auth.admin.deleteUser.
PostgrestErrors == {"connection error"}
NoRowsError == "JSON object requested, multiple (or no) rows returned"
AuthError == "User not found"

\* The message of an auth.admin.deleteUser that fails although the account
\* exists, and all the messages a failing deleteUser can carry.
AuthFailure == "Database error deleting user"
AuthErrors == {AuthError, AuthFailure}

\* ------------------------------------------------- the handler's own logic
\* One entry of the record of remote calls.
Call(op, client, arg, result) ==
    [op |-> op, client |-> client, arg |-> arg, result |-> result]

\* Lines 17-21 and 64-67: the client each remote call goes through.
\* auth.getUser() and the role lookup use the client built from the anon key
\* and the caller's Authorization header; the rest use the client built
\* from the service-role key.
ClientOf_adminOnly(op) == "supabaseAdmin"
ClientOf(op) ==
    IF op \in {"getUser", "roleLookup"} THEN "supabaseClient"
    ELSE "supabaseAdmin"

\* Line 26: `if (!user)`.
NoUser_unchecked(u) == FALSE
NoUser(u) == u = Null

\* Line 37: `profile?.role !== 'super_admin'`.
NotSuperAdmin_anyRole(role) == role = Null
NotSuperAdmin(role) == role # "super_admin"

\* Lines 43-50: req.json() and body.organizationId.
BodyThrows(body) == body = Unparseable
BodyOrganizationId(body) == IF body = Unparseable THEN Null ELSE body

\* Line 52: `!organizationId`.
NoOrganizationId_undefinedOnly(id) == id = Null
NoOrganizationId(id) == id \in {Null, ""}

\* Line 57: `!serviceRoleKey`.
NoServiceRoleKey_skipped(key) == FALSE
NoServiceRoleKey(key) == key \in {Null, ""}

\* Lines 41-67 with the secret checked before the body is read.
ElevateError_keyFirst(body, key) ==
    IF NoServiceRoleKey(key) THEN MsgNoKey
    ELSE IF BodyThrows(body) THEN MsgInvalidBody
    ELSE IF NoOrganizationId(BodyOrganizationId(body)) THEN MsgIdRequired
    ELSE Null

\* Lines 41-67, run once the caller is authorized: the message of the error
\* thrown, or Null when the privileged client is constructed.
ElevateError(body, key) ==
    IF BodyThrows(body) THEN MsgInvalidBody
    ELSE IF NoOrganizationId(BodyOrganizationId(body)) THEN MsgIdRequired
    ELSE IF NoServiceRoleKey(key) THEN MsgNoKey
    ELSE Null

\* Lines 77-85: the error thrown after the organization lookup, or Null.
OrgLookupError_ignored(orgError, org) == Null
OrgLookupError(orgError, org) ==
    IF orgError # Null THEN "Database Error: " \o orgError
    ELSE IF org = Null THEN MsgOrgNotFound
    ELSE Null

\* Line 102: `users && users.length > 0`.
EntersLoop(isNull, rows) == ~isNull /\ Len(rows) > 0

\* Lines 103-104, as a loop without the `if (u.user_id)` test.
NextAccount_noSkip(rows, from) == IF from > Len(rows) THEN 0 ELSE from

\* Lines 103-104, as a loop that goes back to the account just attempted.
NextAccount_repeat(rows, from) == IF from > 1 THEN from - 1 ELSE 1

\* Lines 103-104: the first position at or after `from` of a row with a
\* user_id, or 0 when the loop is over (or never entered).
RECURSIVE NextAccount(_, _)
NextAccount(rows, from) ==
    IF from > Len(rows) THEN 0
    ELSE IF rows[from] # Null THEN from
    ELSE NextAccount(rows, from + 1)

\* Lines 103-120: what the handler awaits once an account deletion (or the
\* enumeration) has returned: the deletion of the next account at position
\* `next`, or, the loop being over (0), the organization delete.
AfterAccount_eager(next) == "deleteOrg"
AfterAccount_reenumerate(next) == IF next = 0 THEN "enumerate" ELSE "deleteUser"
AfterAccount(next) == IF next = 0 THEN "deleteOrg" ELSE "deleteUser"

\* Lines 96-99: an error of the enumeration is logged; nothing is thrown.
UsersErrorThrows_always(usersError) == TRUE
UsersErrorThrows(usersError) == FALSE

\* Lines 110-113: a failed account deletion is logged; the loop goes on.
AbortsPurge_onError(deleteAuthError) == TRUE
AbortsPurge(deleteAuthError) == FALSE

\* Lines 137-148: the accounts the catch block brings back out of those the
\* invocation deleted: none, there is no rollback.
Restored_all(deleted) == deleted
Restored(deleted) == {}

\* Lines 125-127: `if (deleteOrgError) throw deleteOrgError`.
DeleteOrgThrows_never(deleteOrgError) == FALSE
DeleteOrgThrows(deleteOrgError) == deleteOrgError # Null

\* ------------------------------------------------------ the collaborators
\* auth.getUser(): the account of the bearer token, if it still exists.
ResolveUser(tok, accounts) ==
    IF TokenUser(tok) \in accounts THEN TokenUser(tok) ELSE Null

\* from('user_profiles').select('role').eq('user_id', id).single()
ProfileRole(table, id) ==
    LET rows == SelectSeq(table, LAMBDA p : p.user_id = id)
    IN  IF Len(rows) = 1 THEN rows[1].role ELSE Null

\* from('user_profiles').select('user_id').eq('current_organization_id', id)
LinkedUserIds_unfiltered(table, id) == [i \in 1..Len(table) |-> table[i].user_id]
LinkedUserIds(table, id) ==
    LET rows == SelectSeq(table, LAMBDA p : p.current_organization_id = id)
    IN  [i \in 1..Len(rows) |-> rows[i].user_id]

\* from('organizations').delete().eq('id', id): a delete whose filter
\* matches no row is not an error.
DeleteRowError_missing(rows, id) == IF id \in rows THEN Null ELSE NoRowsError
DeleteRowError(rows, id) == Null

\* auth.admin.deleteUser(id): an account that no longer exists is an error.
DeleteUserError(accounts, id) == IF id \in accounts THEN Null ELSE AuthError

\* from('organizations').delete().eq('id', id): the rows left.
RowsAfterDelete_none(rows, id) == rows
RowsAfterDelete(rows, id) == rows \ {id}

\* ------------------------------------------------- the dashboard's logic
\* The organizations in the order the company table fetches them.
OrgSeq == << "org1", "org2" >>

\* The bearer token of the dashboard's session (the signed-in super admin).
SessionToken == "tok_sa"

\* CompanyTable.fetchCompanies: the rows mapped from the data returned.
MappedCompanies(rows) == SelectSeq(OrgSeq, LAMBDA o : o \in rows)

\* No confirmDelete call is waiting for this invocation.  A call that waits
\* holds the `companies` and `companyToDelete` of the render it was started
\* from.
NoConfirm == [stage |-> "idle", companies |-> << >>, companyToDelete |-> Null]

\* What functions.invoke resolves to when no response arrives.
FetchErrorResponse ==
    [status |-> 0, message |-> Null,
     error |-> "Failed to send a request to the Edge Function",
     details |-> Null, headers |-> Null, text |-> Null]

\* functions.invoke reports every response that is not 2xx, and a request
\* without response, as `error`; an HTTP error carries the Response.
InvokeError(resp) == resp.status # 200
HasContext(resp) == resp.status = 400

\* confirmDelete, line 117: `companies.filter(c => c.id !== companyToDelete.id)`.
CompaniesAfterDelete_kept(list, id) == list
CompaniesAfterDelete(list, id) == SelectSeq(list, LAMBDA c : c # id)

\* The table writes of the dashboard's operations, with the table and the
\* kind of write.  CompanyTable writes no table: confirmDelete invokes the
\* delete-account function instead of deleting the row itself.
CompanyTableWrites_direct ==
    { [operation |-> "confirmDelete", table |-> "organizations",
       kind |-> "delete"] }
CompanyTableWrites == {}

\* FeatureManagementModal.handleSave.
FeatureWrites ==
    { [operation |-> "handleSave", table |-> "organization_features",
       kind |-> "upsert"] }

\* TicketDetailModal.handleStatusChange and handleSendComment.
TicketWrites ==
    { [operation |-> "handleStatusChange", table |-> "support_tickets",
       kind |-> "update"],
      [operation |-> "handleSendComment", table |-> "ticket_comments",
       kind |-> "insert"] }

\* ErrorLogsTable.markAsResolved.
ErrorLogWrites ==
    { [operation |-> "markAsResolved", table |-> "error_logs",
       kind |-> "update"] }

DashboardWrites ==
    CompanyTableWrites \cup FeatureWrites \cup TicketWrites \cup ErrorLogWrites

\* The rows of table organizations after write `w` for organization `id`.
OrganizationsAfterWrite(rows, w, id) ==
    IF w.table = "organizations" /\ w.kind = "delete" THEN rows \ {id}
    ELSE rows

\* ------------------------------------------------------ the ticket views
\* Requests of one kind that the client may have in flight at a time.
MaxInFlight == 2

\* types/index.ts, line 71: the statuses of a support ticket.
TicketStatuses == {"open", "in_progress", "waiting", "resolved", "closed"}

\* SupportTicketList, lines 11 and 98: the values of the status filter.
StatusFilters == {"all", "open", "in_progress", "resolved", "closed"}

\* The ticket of table support_tickets.
Tickets == {"t1"}
TicketSeq == << "t1" >>

NoTicket == [id |-> Null, status |-> Null]

\* SupportTicketList, lines 21-34: the rows the query returns from `table`
\* under status filter `filter`.
TicketsMatching(table, filter) ==
    LET rows == [i \in 1..Len(TicketSeq) |->
                    [id |-> TicketSeq[i], status |-> table[TicketSeq[i]]]]
    IN  SelectSeq(rows, LAMBDA t : filter = "all" \/ t.status = filter)

\* A fetchTickets call awaiting its query: the filter its closure read, the
\* answer once the data store has given it, and whether it is the call
\* issued last.
Fetch(filter) ==
    [filter |-> filter, stage |-> "sent", data |-> << >>, error |-> Null,
     latest |-> TRUE]

\* SupportTicketList, lines 18-34: fetchTickets sets loading and sends its
\* query; the calls issued earlier are no longer the latest.
FetchIssued(list, filter) ==
    [list EXCEPT
       !.loading = TRUE,
       !.fetches = [i \in 1..Len(list.fetches) |->
                       [list.fetches[i] EXCEPT !.latest = FALSE]]
                   \o << Fetch(filter) >>]

\* The settled fetchTickets call issued last; none has settled at mount.
NoFetch == [filter |-> Null, stage |-> "none", data |-> << >>, error |-> Null,
            latest |-> FALSE]

\* A sequence without its i-th element.
Without(seq, i) == SubSeq(seq, 1, i - 1) \o SubSeq(seq, i + 1, Len(seq))

\* TicketDetailModal, lines 66-67: the status the selector takes when an
\* update failed.
RevertStatus(ticket) == ticket.status

\* SupportTicketList, lines 36-37: whether the answer of a fetch is applied
\* to `tickets` (no ordering or cancellation test is made).
AppliesFetch(fetch) == fetch.error = Null

\* ----------------------------------------------------- the feature modal
\* The features of the sidebar that are modelled.
MaxFeatures == 2

\* FeatureManagementModal, lines 134-201: the keys of SIDEBAR_FEATURES.
FeatureKeys ==
    << "dashboard", "employees", "attendance", "leave", "tasks", "expenses",
       "payroll", "training", "work-reports", "reports", "settings" >>

SIDEBAR_FEATURES == { FeatureKeys[i] : i \in 1..MaxFeatures }

\* The company whose features are managed.
FeatureCompany == "org1"

\* The rows of one organization in organization_features: at most one per
\* feature key (the conflict target of the upsert, line 290).
FeatureRow(key, enabled) == [feature_key |-> key, is_enabled |-> enabled]

FeatureTables ==
    { { FeatureRow(k, f[k]) : k \in D } :
        D \in SUBSET SIDEBAR_FEATURES, f \in [SIDEBAR_FEATURES -> BOOLEAN] }

\* An enabledFeatures object without keys (line 208).
NoFeatures == [k \in {} |-> TRUE]

\* Lines 238-241: the rows fetched, as a map from feature key to is_enabled.
FeatureMap(data) ==
    [k \in { row.feature_key : row \in data } |->
        (CHOOSE row \in data : row.feature_key = k).is_enabled]

\* Lines 244-247: every sidebar feature takes its row's value, and true when
\* it has no row.
InitialFeatures(data) ==
    [k \in SIDEBAR_FEATURES |->
        IF k \in DOMAIN FeatureMap(data) THEN FeatureMap(data)[k] ELSE TRUE]

\* Lines 263-268: the object after the checkbox of featureKey is clicked.
ToggledFeatures(prev, featureKey) ==
    [k \in DOMAIN prev \cup {featureKey} |->
        IF k = featureKey
          THEN (IF featureKey \in DOMAIN prev THEN ~prev[featureKey] ELSE TRUE)
          ELSE prev[k]]

\* Lines 277-282: one row per entry of enabledFeatures.
FeatureRows(enabledFeatures) ==
    { FeatureRow(k, enabledFeatures[k]) : k \in DOMAIN enabledFeatures }

\* Lines 287-292: the table after the upsert of `rows` on
\* (organization_id, feature_key).
Upserted(table, rows) ==
    { row \in table :
        \A new \in rows : new.feature_key # row.feature_key } \cup rows

\* Line 361: the checkbox of a feature shows enabledFeatures[key] || false.
Checked(enabledFeatures, key) ==
    IF key \in DOMAIN enabledFeatures THEN enabledFeatures[key] ELSE FALSE

NoLoad == [stage |-> "none", data |-> {}, error |-> Null]
NoSave == [stage |-> "none", rows |-> {}, error |-> Null, mounted |-> FALSE]

\* The modal as it mounts for `company`, and with no company selected.
MountedModal(company) ==
    [company |-> company, enabledFeatures |-> NoFeatures, loading |-> TRUE,
     saving |-> FALSE, toast |-> Null]

\* ------------------------------------------------------------- the login
\* LoginForm, lines 6-9, and the position of handleLogin: the account it
\* signs in, whether the password typed is the account's, and how the last
\* call ended.
FreshLoginForm ==
    [loading |-> FALSE, error |-> Null, stage |-> "idle", user |-> Null,
     password |-> FALSE, outcome |-> Null]

MsgInvalidLogin == "Invalid login credentials"
MsgAccessDenied == "Access denied. Super admin privileges required."

\* App, lines 64-77: what App renders.
Rendered(app) ==
    IF app.loading THEN "loading"
    ELSE IF app.user = Null THEN "LoginForm"
    ELSE "dashboard"

\* LoginForm, line 21: signInWithPassword returned an error.
SignInError(accounts, id, password) ==
    IF id \in accounts /\ password THEN Null ELSE MsgInvalidLogin

\* LoginForm, lines 26-32: the error of the profile lookup (.single() gives
\* one when no row matches).
ProfileError(table, id, error) ==
    IF error # Null THEN error
    ELSE IF ProfileRole(table, id) = Null THEN NoRowsError
    ELSE Null

\* LoginForm, lines 32-37: what handleLogin does with the profile.
AfterProfile(profileError, role) ==
    IF profileError # Null THEN "catch"
    ELSE IF role # "super_admin" THEN "signOut"
    ELSE "done"

\* -------------------------------------------------------------------- Init
InitFunction ==
    /\ organizations = Orgs
    /\ user_profiles \in ProfileTables
    /\ authUsers = Accounts
    /\ SERVICE_ROLE_KEY \in KeyValues
    /\ pc = [r \in Invocations |-> "idle"]
    /\ req = [r \in Invocations |-> [method |-> Null, token |-> Null, body |-> Null]]
    /\ user = [r \in Invocations |-> Null]
    /\ organizationId = [r \in Invocations |-> Null]
    /\ supabaseAdmin = [r \in Invocations |-> FALSE]
    /\ users = [r \in Invocations |-> << >>]
    /\ usersNull = [r \in Invocations |-> FALSE]
    /\ idx = [r \in Invocations |-> 0]
    /\ calls = [r \in Invocations |-> << >>]
    /\ response = [r \in Invocations |-> NoResponse]

\* The dashboard as it mounts: App awaits getSession, CompanyTable and
\* SupportTicketList their first fetch, no modal is open.
InitDashboard ==
    /\ companies = << >>
    /\ loading = TRUE
    /\ deleteModalOpen = FALSE
    /\ companyToDelete = Null
    /\ isDeleting = FALSE
    /\ confirm = [r \in Invocations |-> NoConfirm]
    /\ lastWrite = Null
    /\ support_tickets = [t \in Tickets |-> "open"]
    /\ SupportTicketList =
          [tickets |-> << >>, loading |-> TRUE, statusFilter |-> "all",
           selectedTicket |-> NoTicket, fetches |-> << Fetch("all") >>,
           lastFetch |-> NoFetch]
    /\ TicketDetailModal =
          [status |-> Null, updates |-> << >>]
    /\ FeatureManagementModal =
          [modal |-> MountedModal(Null), load |-> NoLoad, save |-> NoSave,
           timer |-> FALSE]
    /\ session = Null
    /\ App = [user |-> Null, loading |-> TRUE]
    /\ LoginForm = FreshLoginForm

Init ==
    /\ InitFunction
    /\ InitDashboard
    /\ organization_features = {}

\* ----------------------------------------------------------------- actions
\* The handler instance is between its first await and its response.
InFlight(r) == pc[r] \notin {"idle", "done"}

\* The runtime hands a request to the first free handler instance.
FirstFree(r) ==
    /\ pc[r] = "idle"
    /\ r = "b" => pc["a"] # "idle"

\* The handler ends by returning `resp`.
Respond(r, resp) ==
    /\ pc' = [pc EXCEPT ![r] = "done"]
    /\ response' = [response EXCEPT ![r] = resp]

Arrive(r, method, tok, body) ==
    req' = [req EXCEPT ![r] = [method |-> method, token |-> tok, body |-> body]]

\* Lines 11-13: an OPTIONS request is answered at once.
Preflight(r) ==
    /\ FirstFree(r)
    /\ Arrive(r, "OPTIONS", Null, Null)
    /\ Respond(r, PreflightResponse)
    /\ UNCHANGED << stores, dashboard, user, organizationId, supabaseAdmin,
                    users, usersNull, idx, calls >>

\* Lines 15-24: any other request builds the caller-scoped client and
\* awaits auth.getUser().
Start(r, tok, body) ==
    /\ FirstFree(r)
    /\ Arrive(r, "POST", tok, body)
    /\ pc' = [pc EXCEPT ![r] = "getUser"]
    /\ UNCHANGED << stores, user, organizationId, supabaseAdmin, users,
                    usersNull, idx, calls, response >>

\* A request sent by any client of the function.
Invoke(r) ==
    /\ \E tok \in Tokens, body \in Bodies : Start(r, tok, body)
    /\ UNCHANGED dashboard

\* Lines 24-35: getUser returns; without a user the handler throws, else it
\* awaits the role lookup.
GetUser(r) ==
    /\ pc[r] = "getUser"
    /\ \E fails \in BOOLEAN :
         LET u == IF fails THEN Null ELSE ResolveUser(req[r].token, authUsers)
         IN  /\ calls' = [calls EXCEPT ![r] =
                  Append(@, Call("getUser", ClientOf("getUser"), req[r].token, u))]
             /\ user' = [user EXCEPT ![r] = u]
             /\ IF NoUser(u)
                  THEN Respond(r, ErrorResponse(MsgUnauthorized))
                  ELSE /\ pc' = [pc EXCEPT ![r] = "roleLookup"]
                       /\ UNCHANGED response
    /\ UNCHANGED << stores, dashboard, req, organizationId, supabaseAdmin,
                    users, usersNull, idx >>

\* Lines 31-75: the role lookup returns; then the role check, the body, the
\* secret and the privileged client, up to the awaited organization lookup.
RoleLookup(r) ==
    /\ pc[r] = "roleLookup"
    /\ \E fails \in BOOLEAN :
         LET role == IF fails THEN Null ELSE ProfileRole(user_profiles, user[r])
             err == ElevateError(req[r].body, SERVICE_ROLE_KEY)
         IN  /\ calls' = [calls EXCEPT ![r] =
                  Append(@, Call("roleLookup", ClientOf("roleLookup"), user[r], role))]
             /\ IF NotSuperAdmin(role)
                  THEN /\ Respond(r, ErrorResponse(MsgNotSuperAdmin))
                       /\ UNCHANGED << organizationId, supabaseAdmin >>
                  ELSE /\ organizationId' = [organizationId EXCEPT ![r] =
                              BodyOrganizationId(req[r].body)]
                       /\ IF err # Null
                            THEN /\ Respond(r, ErrorResponse(err))
                                 /\ UNCHANGED supabaseAdmin
                            ELSE /\ supabaseAdmin' = [supabaseAdmin EXCEPT ![r] = TRUE]
                                 /\ pc' = [pc EXCEPT ![r] = "orgLookup"]
                                 /\ UNCHANGED response
    /\ UNCHANGED << stores, dashboard, req, user, users, usersNull, idx >>

\* Lines 71-94: the organization lookup returns; an error or no row throws,
\* else the handler awaits the enumeration of the linked profiles.
\* `.single()` reports a missing row as an error.
OrgLookup(r) ==
    /\ pc[r] = "orgLookup"
    /\ \E e \in PostgrestErrors \cup {Null} :
         LET found == organizationId[r] \in organizations
             orgError == IF e # Null THEN e
                         ELSE IF found THEN Null ELSE NoRowsError
             org == IF orgError = Null THEN organizationId[r] ELSE Null
             err == OrgLookupError(orgError, org)
         IN  /\ calls' = [calls EXCEPT ![r] =
                  Append(@, Call("orgLookup", ClientOf("orgLookup"), organizationId[r],
                                 IF orgError = Null THEN "row" ELSE orgError))]
             /\ IF err # Null
                  THEN Respond(r, ErrorResponse(err))
                  ELSE /\ pc' = [pc EXCEPT ![r] = "enumerate"]
                       /\ UNCHANGED response
    /\ UNCHANGED << stores, dashboard, req, user, organizationId,
                    supabaseAdmin, users, usersNull, idx >>

\* Lines 91-108 / 120: the enumeration returns (`users` is null when it
\* errored); an error is logged only.
\* The loop then awaits the first account deletion, or, with nothing to
\* delete, the handler awaits the organization delete.
Enumerate(r) ==
    /\ pc[r] = "enumerate"
    /\ \E usersError \in PostgrestErrors \cup {Null} :
         LET rows == IF usersError # Null THEN << >>
                     ELSE LinkedUserIds(user_profiles, organizationId[r])
             first == IF EntersLoop(usersError # Null, rows)
                      THEN NextAccount(rows, 1) ELSE 0
         IN  /\ calls' = [calls EXCEPT ![r] =
                  Append(@, Call("enumerate", ClientOf("enumerate"), organizationId[r],
                                 IF usersError = Null THEN "ok" ELSE usersError))]
             /\ users' = [users EXCEPT ![r] = rows]
             /\ usersNull' = [usersNull EXCEPT ![r] = usersError # Null]
             /\ IF usersError # Null /\ UsersErrorThrows(usersError)
                  THEN /\ Respond(r, ErrorResponse(usersError))
                       /\ UNCHANGED idx
                  ELSE /\ idx' = [idx EXCEPT ![r] = first]
                       /\ pc' = [pc EXCEPT ![r] = AfterAccount(first)]
                       /\ UNCHANGED response
    /\ UNCHANGED << stores, dashboard, req, user, organizationId,
                    supabaseAdmin >>

\* Lines 106-115: one auth.admin.deleteUser returns.  Deleting an account
\* that no longer exists is an error; the deletion of an existing account
\* may fail too.
DeleteUser(r) ==
    /\ pc[r] = "deleteUser"
    /\ \E fails \in BOOLEAN :
         LET u == users[r][idx[r]]
             deleteAuthError ==
                 IF DeleteUserError(authUsers, u) # Null
                   THEN DeleteUserError(authUsers, u)
                   ELSE IF fails THEN AuthFailure ELSE Null
             next == NextAccount(users[r], idx[r] + 1)
         IN  /\ calls' = [calls EXCEPT ![r] =
                  Append(@, Call("deleteUser", ClientOf("deleteUser"), u,
                                 IF deleteAuthError = Null THEN "ok" ELSE deleteAuthError))]
             /\ authUsers' = IF deleteAuthError = Null THEN authUsers \ {u}
                             ELSE authUsers
             /\ IF deleteAuthError # Null /\ AbortsPurge(deleteAuthError)
                  THEN /\ Respond(r, ErrorResponse(deleteAuthError))
                       /\ UNCHANGED idx
                  ELSE /\ idx' = [idx EXCEPT ![r] = next]
                       /\ pc' = [pc EXCEPT ![r] = AfterAccount(next)]
                       /\ UNCHANGED response
    /\ UNCHANGED << organizations, user_profiles, SERVICE_ROLE_KEY, dashboard,
                    req, user, organizationId, supabaseAdmin, users, usersNull >>

\* The accounts whose deletion by invocation r went through.
DeletedBy(r) ==
    { calls[r][i].arg : i \in { j \in 1..Len(calls[r]) :
          calls[r][j].op = "deleteUser" /\ calls[r][j].result = "ok" } }

\* Lines 120-148: the organization delete returns; its error is thrown,
\* otherwise the handler answers 200.  Deleting a row that is already gone
\* is not an error.
DeleteOrg(r) ==
    /\ pc[r] = "deleteOrg"
    /\ \E deleteOrgError \in PostgrestErrors \cup
                             {DeleteRowError(organizations, organizationId[r])} :
         /\ calls' = [calls EXCEPT ![r] =
              Append(@, Call("deleteOrg", ClientOf("deleteOrg"), organizationId[r],
                             IF deleteOrgError = Null THEN "ok" ELSE deleteOrgError))]
         /\ organizations' = IF deleteOrgError = Null
                               THEN RowsAfterDelete(organizations, organizationId[r])
                               ELSE organizations
         /\ IF DeleteOrgThrows(deleteOrgError)
              THEN /\ Respond(r, ErrorResponse(deleteOrgError))
                   /\ authUsers' = authUsers \cup Restored(DeletedBy(r))
              ELSE /\ Respond(r, SuccessResponse)
                   /\ UNCHANGED authUsers
    /\ UNCHANGED << user_profiles, SERVICE_ROLE_KEY, dashboard, req, user,
                    organizationId, supabaseAdmin, users, usersNull, idx >>

\* Nothing of an invocation is retained once its response is consumed.
Release(r) ==
    /\ pc[r] = "done"
    /\ pc' = [pc EXCEPT ![r] = "idle"]
    /\ req' = [req EXCEPT ![r] = [method |-> Null, token |-> Null, body |-> Null]]
    /\ user' = [user EXCEPT ![r] = Null]
    /\ organizationId' = [organizationId EXCEPT ![r] = Null]
    /\ supabaseAdmin' = [supabaseAdmin EXCEPT ![r] = FALSE]
    /\ users' = [users EXCEPT ![r] = << >>]
    /\ usersNull' = [usersNull EXCEPT ![r] = FALSE]
    /\ idx' = [idx EXCEPT ![r] = 0]
    /\ calls' = [calls EXCEPT ![r] = << >>]
    /\ response' = [response EXCEPT ![r] = NoResponse]

\* The response has been sent to a client other than the dashboard.
Return(r) ==
    /\ Release(r)
    /\ UNCHANGED << stores, dashboard >>

\* ------------------------------------------------- the dashboard's actions
\* CompanyTable, lines 20-79: the fetch started on mount returns.
FetchCompanies ==
    /\ loading
    /\ \E error \in PostgrestErrors \cup {Null} :
         companies' = IF error = Null THEN MappedCompanies(organizations)
                      ELSE companies
    /\ loading' = FALSE
    /\ UNCHANGED << stores, handler, deleteModalOpen, companyToDelete,
                    isDeleting, confirm, lastWrite, views >>

\* CompanyTable, lines 81-84: the delete button of a displayed row.
handleDeleteClick(company) ==
    /\ ~loading
    /\ \E i \in 1..Len(companies) : companies[i] = company
    /\ companyToDelete' = company
    /\ deleteModalOpen' = TRUE
    /\ UNCHANGED << stores, handler, companies, loading, isDeleting, confirm,
                    lastWrite, views >>

\* CompanyTable, line 307: the modal's onClose.
onClose ==
    /\ deleteModalOpen
    /\ deleteModalOpen' = FALSE
    /\ UNCHANGED << stores, handler, companies, loading, companyToDelete,
                    isDeleting, confirm, lastWrite, views >>

\* CompanyTable, lines 86-94: the modal's onConfirm runs confirmDelete up to
\* the awaited functions.invoke, which posts the selected id with the
\* session's token.
confirmDelete(r) ==
    /\ deleteModalOpen
    /\ companyToDelete # Null
    /\ confirm[r].stage = "idle"
    /\ Start(r, SessionToken, companyToDelete)
    /\ isDeleting' = TRUE
    /\ confirm' = [confirm EXCEPT ![r] =
           [stage |-> "invoked", companies |-> companies,
            companyToDelete |-> companyToDelete]]
    /\ UNCHANGED << companies, loading, deleteModalOpen, companyToDelete,
                    lastWrite, views >>

\* The response of the function does not reach the dashboard.
LoseResponse(r) ==
    /\ confirm[r].stage = "invoked"
    /\ pc[r] = "done"
    /\ response[r] # FetchErrorResponse
    /\ response' = [response EXCEPT ![r] = FetchErrorResponse]
    /\ UNCHANGED << stores, dashboard, pc, req, user, organizationId,
                    supabaseAdmin, users, usersNull, idx, calls >>

\* CompanyTable, lines 92-125: functions.invoke resolves.  Without error the
\* row is filtered out of the captured list, the modal closed and the
\* selection cleared; with an HTTP error the body of the response is awaited
\* first; with any other error confirmDelete alerts and ends.
InvokeReturns(r) ==
    /\ confirm[r].stage = "invoked"
    /\ pc[r] = "done"
    /\ IF ~InvokeError(response[r])
         THEN /\ companies' = CompaniesAfterDelete(confirm[r].companies,
                                                   confirm[r].companyToDelete)
              /\ deleteModalOpen' = FALSE
              /\ companyToDelete' = Null
              /\ isDeleting' = FALSE
              /\ confirm' = [confirm EXCEPT ![r] = NoConfirm]
              /\ Release(r)
         ELSE IF HasContext(response[r])
         THEN /\ confirm' = [confirm EXCEPT ![r].stage = "failed"]
              /\ UNCHANGED << handler, companies, deleteModalOpen,
                              companyToDelete, isDeleting >>
         ELSE /\ isDeleting' = FALSE
              /\ confirm' = [confirm EXCEPT ![r] = NoConfirm]
              /\ Release(r)
              /\ UNCHANGED << companies, deleteModalOpen, companyToDelete >>
    /\ UNCHANGED << stores, loading, lastWrite, views >>

\* CompanyTable, lines 103-125: the error body has been read; confirmDelete
\* alerts, rethrows, alerts again and ends in `finally`.
ErrorBodyRead(r) ==
    /\ confirm[r].stage = "failed"
    /\ isDeleting' = FALSE
    /\ confirm' = [confirm EXCEPT ![r] = NoConfirm]
    /\ Release(r)
    /\ UNCHANGED << stores, companies, loading, deleteModalOpen,
                    companyToDelete, lastWrite, views >>

\* One of the dashboard's table writes is applied.
DashboardWrite ==
    /\ \E w \in DashboardWrites, id \in Orgs :
         /\ lastWrite' = w.operation
         /\ organizations' = OrganizationsAfterWrite(organizations, w, id)
    /\ UNCHANGED << user_profiles, authUsers, SERVICE_ROLE_KEY, handler,
                    companies, loading, deleteModalOpen, companyToDelete,
                    isDeleting, confirm, views >>

\* ------------------------------------------------ the ticket views' actions
\* SupportTicketList, lines 14-16 and 98: a filter button selects another
\* filter, and the effect runs fetchTickets.
setStatusFilter(filter) ==
    /\ filter # SupportTicketList.statusFilter
    /\ Len(SupportTicketList.fetches) < MaxInFlight
    /\ SupportTicketList' =
          FetchIssued([SupportTicketList EXCEPT !.statusFilter = filter],
                      filter)
    /\ UNCHANGED << stores, handler, dashboardTable, support_tickets,
                    TicketDetailModal, featureViews, loginViews >>

\* The data store answers the query of the i-th fetch in flight.
FetchServed(i) ==
    /\ i \in 1..Len(SupportTicketList.fetches)
    /\ SupportTicketList.fetches[i].stage = "sent"
    /\ \E error \in PostgrestErrors \cup {Null} :
         SupportTicketList' =
            [SupportTicketList EXCEPT !.fetches[i] =
                [@ EXCEPT !.stage = "served",
                          !.error = error,
                          !.data = IF error = Null
                                     THEN TicketsMatching(support_tickets,
                                            SupportTicketList.fetches[i].filter)
                                     ELSE << >>]]
    /\ UNCHANGED << stores, handler, dashboardTable, support_tickets,
                    TicketDetailModal, featureViews, loginViews >>

\* SupportTicketList, lines 34-42: the awaited query of the i-th fetch
\* resolves; its data replace `tickets` unless it brought an error, and
\* loading ends.
FetchReturns(i) ==
    /\ i \in 1..Len(SupportTicketList.fetches)
    /\ SupportTicketList.fetches[i].stage = "served"
    /\ LET fetch == SupportTicketList.fetches[i]
       IN  SupportTicketList' =
              [SupportTicketList EXCEPT
                 !.tickets = IF AppliesFetch(fetch) THEN fetch.data ELSE @,
                 !.loading = FALSE,
                 !.fetches = Without(@, i),
                 !.lastFetch = IF fetch.latest THEN fetch ELSE @]
    /\ UNCHANGED << stores, handler, dashboardTable, support_tickets,
                    TicketDetailModal, featureViews, loginViews >>

\* SupportTicketList, lines 129-131 and 186-191: a displayed ticket is
\* clicked and the modal mounts with the row's status in its selector.
setSelectedTicket(ticket) ==
    /\ SupportTicketList.selectedTicket = NoTicket
    /\ ~SupportTicketList.loading
    /\ \E i \in 1..Len(SupportTicketList.tickets) :
         SupportTicketList.tickets[i] = ticket
    /\ SupportTicketList' = [SupportTicketList EXCEPT !.selectedTicket = ticket]
    /\ TicketDetailModal' = [TicketDetailModal EXCEPT !.status = ticket.status]
    /\ UNCHANGED << stores, handler, dashboardTable, support_tickets,
                    featureViews, loginViews >>

\* SupportTicketList, line 189: the modal's onClose unmounts it; the updates
\* it still awaits will settle on an unmounted component.
onCloseTicket ==
    /\ SupportTicketList.selectedTicket # NoTicket
    /\ SupportTicketList' =
          [SupportTicketList EXCEPT !.selectedTicket = NoTicket]
    /\ TicketDetailModal' =
          [status |-> Null,
           updates |-> [i \in 1..Len(TicketDetailModal.updates) |->
                          [TicketDetailModal.updates[i] EXCEPT
                              !.mounted = FALSE]]]
    /\ UNCHANGED << stores, handler, dashboardTable, support_tickets,
                    featureViews, loginViews >>

\* TicketDetailModal, lines 54-60: the selector is changed; the new status
\* is shown at once and the update of the ticket's row is awaited.
handleStatusChange(newStatus) ==
    /\ SupportTicketList.selectedTicket # NoTicket
    /\ newStatus # TicketDetailModal.status
    /\ Len(TicketDetailModal.updates) < MaxInFlight
    /\ TicketDetailModal' =
          [status |-> newStatus,
           updates |-> Append(TicketDetailModal.updates,
               [ticket |-> SupportTicketList.selectedTicket,
                newStatus |-> newStatus,
                filter |-> SupportTicketList.statusFilter,
                stage |-> "sent", error |-> Null, mounted |-> TRUE])]
    /\ UNCHANGED << stores, handler, dashboardTable, support_tickets,
                    SupportTicketList, featureViews, loginViews >>

\* The data store applies, or refuses, the i-th update in flight.
UpdateServed(i) ==
    /\ i \in 1..Len(TicketDetailModal.updates)
    /\ TicketDetailModal.updates[i].stage = "sent"
    /\ \E error \in PostgrestErrors \cup {Null} :
         /\ TicketDetailModal' =
               [TicketDetailModal EXCEPT !.updates[i] =
                   [@ EXCEPT !.stage = "served", !.error = error]]
         /\ support_tickets' =
               IF error = Null
                 THEN [support_tickets EXCEPT
                         ![TicketDetailModal.updates[i].ticket.id] =
                             TicketDetailModal.updates[i].newStatus]
                 ELSE support_tickets
    /\ UNCHANGED << stores, handler, dashboardTable, SupportTicketList,
                    featureViews, loginViews >>

\* TicketDetailModal, lines 61-68: the awaited update resolves.  Without
\* error onUpdate runs the list's fetchTickets; with an error the selector is
\* set back to the status of the `ticket` prop.
UpdateReturns(i) ==
    /\ i \in 1..Len(TicketDetailModal.updates)
    /\ TicketDetailModal.updates[i].stage = "served"
    /\ LET update == TicketDetailModal.updates[i]
       IN  IF update.error = Null
             THEN /\ Len(SupportTicketList.fetches) < MaxInFlight
                  /\ SupportTicketList' =
                        FetchIssued(SupportTicketList, update.filter)
                  /\ TicketDetailModal' =
                        [TicketDetailModal EXCEPT !.updates = Without(@, i)]
             ELSE /\ TicketDetailModal' =
                        [status |-> IF update.mounted
                                      THEN RevertStatus(update.ticket)
                                      ELSE TicketDetailModal.status,
                         updates |-> Without(TicketDetailModal.updates, i)]
                  /\ UNCHANGED SupportTicketList
    /\ UNCHANGED << stores, handler, dashboardTable, support_tickets,
                    featureViews, loginViews >>

\* ------------------------------------------------ the feature modal's actions
\* App, lines 44-46 and 186-192: "manage features" on a company mounts the
\* modal, whose effect (lines 213-217) starts loadFeatures.  A save started
\* by an earlier modal stays in flight.
handleManageFeatures(company) ==
    /\ FeatureManagementModal.modal.company = Null
    /\ FeatureManagementModal' =
          [FeatureManagementModal EXCEPT
             !.modal = MountedModal(company),
             !.load = [stage |-> "sent", data |-> {}, error |-> Null]]
    /\ UNCHANGED << stores, handler, dashboardTable, ticketViews,
                    organization_features, loginViews >>

\* The modal unmounts: what its load brings is dropped, and its save settles
\* on an unmounted component.
Unmounted(view) ==
    [view EXCEPT !.modal = MountedModal(Null),
                 !.load = NoLoad,
                 !.save = IF @.stage = "none" THEN @
                          ELSE [@ EXCEPT !.mounted = FALSE]]

\* App, lines 52-54: onClose (the close button, Cancel or the backdrop).
handleCloseFeaturesModal ==
    /\ FeatureManagementModal.modal.company # Null
    /\ FeatureManagementModal' = Unmounted(FeatureManagementModal)
    /\ UNCHANGED << stores, handler, dashboardTable, ticketViews,
                    organization_features, loginViews >>

\* Lines 226-229: the data store answers the select of loadFeatures.
LoadServed ==
    /\ FeatureManagementModal.load.stage = "sent"
    /\ \E error \in PostgrestErrors \cup {Null} :
         FeatureManagementModal' =
            [FeatureManagementModal EXCEPT !.load =
                [stage |-> "served",
                 data |-> IF error = Null THEN organization_features ELSE {},
                 error |-> error]]
    /\ UNCHANGED << stores, handler, dashboardTable, ticketViews,
                    organization_features, loginViews >>

\* Lines 231-260: loadFeatures after its await: the error, if any, is
\* logged, and enabledFeatures is built from the rows received.
LoadReturns ==
    /\ FeatureManagementModal.load.stage = "served"
    /\ FeatureManagementModal' =
          [FeatureManagementModal EXCEPT
             !.modal.enabledFeatures =
                 InitialFeatures(FeatureManagementModal.load.data),
             !.modal.loading = FALSE,
             !.load = NoLoad]
    /\ UNCHANGED << stores, handler, dashboardTable, ticketViews,
                    organization_features, loginViews >>

\* Lines 263-268 and 345-362: a checkbox, rendered once loading is over, is
\* clicked.
handleToggleFeature(featureKey) ==
    /\ FeatureManagementModal.modal.company # Null
    /\ ~FeatureManagementModal.modal.loading
    /\ FeatureManagementModal' =
          [FeatureManagementModal EXCEPT !.modal.enabledFeatures =
              ToggledFeatures(@, featureKey)]
    /\ UNCHANGED << stores, handler, dashboardTable, ticketViews,
                    organization_features, loginViews >>

\* Lines 270-292 and 397-400: Save, disabled only while saving, runs
\* handleSave up to the awaited upsert.  One upsert is in flight at a time.
handleSave ==
    /\ FeatureManagementModal.modal.company # Null
    /\ ~FeatureManagementModal.modal.saving
    /\ FeatureManagementModal.save.stage = "none"
    /\ FeatureManagementModal' =
          [FeatureManagementModal EXCEPT
             !.modal.saving = TRUE,
             !.save = [stage |-> "sent",
                       rows |-> FeatureRows(
                          FeatureManagementModal.modal.enabledFeatures),
                       error |-> Null, mounted |-> TRUE]]
    /\ UNCHANGED << stores, handler, dashboardTable, ticketViews,
                    organization_features, loginViews >>

\* Lines 287-292: the data store applies, or refuses, the upsert.
SaveServed ==
    /\ FeatureManagementModal.save.stage = "sent"
    /\ \E error \in PostgrestErrors \cup {Null} :
         /\ FeatureManagementModal' =
               [FeatureManagementModal EXCEPT
                  !.save.stage = "served", !.save.error = error]
         /\ organization_features' =
               IF error = Null
                 THEN Upserted(organization_features,
                               FeatureManagementModal.save.rows)
                 ELSE organization_features
    /\ UNCHANGED << stores, handler, dashboardTable, ticketViews, loginViews >>

\* Lines 296-310: handleSave after its await: a toast, the timer that will
\* close the modal after a success, and saving ends.
SaveReturns ==
    /\ FeatureManagementModal.save.stage = "served"
    /\ LET save == FeatureManagementModal.save
       IN  FeatureManagementModal' =
              [FeatureManagementModal EXCEPT
                 !.modal.toast = IF ~save.mounted THEN @
                                 ELSE IF save.error = Null THEN "success"
                                 ELSE "error",
                 !.modal.saving = IF save.mounted THEN FALSE ELSE @,
                 !.timer = IF save.error = Null THEN TRUE ELSE @,
                 !.save = NoSave]
    /\ UNCHANGED << stores, handler, dashboardTable, ticketViews,
                    organization_features, loginViews >>

\* Lines 301-304: the timer set after a successful save fires onUpdate and
\* onClose.  (onUpdate bumps the key of the analytics view only.)
ToastTimeout ==
    /\ FeatureManagementModal.timer
    /\ FeatureManagementModal' =
          [Unmounted(FeatureManagementModal) EXCEPT !.timer = FALSE]
    /\ UNCHANGED << stores, handler, dashboardTable, ticketViews,
                    organization_features, loginViews >>

\* ----------------------------------------------------- the login's actions
\* App, lines 25-28: getSession resolves.
GetSession ==
    /\ App.loading
    /\ App' = [user |-> session, loading |-> FALSE]
    /\ UNCHANGED << stores, handler, dashboardTable, ticketViews,
                    featureViews, session, LoginForm >>

\* LoginForm, lines 11-20: the form is submitted and signInWithPassword is
\* awaited.
handleLogin(id, password) ==
    /\ Rendered(App) = "LoginForm"
    /\ LoginForm.stage = "idle"
    /\ LoginForm' =
          [loading |-> TRUE, error |-> Null, stage |-> "signIn",
           user |-> id, password |-> password, outcome |-> Null]
    /\ UNCHANGED << stores, handler, dashboardTable, ticketViews,
                    featureViews, session, App >>

\* LoginForm, lines 17-29 and 38-41, App, lines 30-34: signInWithPassword
\* resolves.  With an error handleLogin shows it and ends; otherwise the
\* session exists, App's listener has set the user (the form is no longer
\* rendered) and the profile lookup is awaited.
SignInReturns ==
    /\ LoginForm.stage = "signIn"
    /\ LET error == SignInError(authUsers, LoginForm.user, LoginForm.password)
       IN  IF error # Null
             THEN /\ LoginForm' = [LoginForm EXCEPT !.loading = FALSE,
                                                    !.error = error,
                                                    !.stage = "idle",
                                                    !.outcome = "error"]
                  /\ UNCHANGED << session, App >>
             ELSE /\ session' = LoginForm.user
                  /\ App' = [App EXCEPT !.user = LoginForm.user]
                  /\ LoginForm' = [LoginForm EXCEPT !.loading = FALSE,
                                                    !.stage = "profile"]
    /\ UNCHANGED << stores, handler, dashboardTable, ticketViews,
                    featureViews >>

\* LoginForm, lines 25-41: the profile lookup resolves.  An error is thrown
\* to the catch; a role other than super_admin makes handleLogin await
\* signOut; a super admin is left signed in.
ProfileReturns ==
    /\ LoginForm.stage = "profile"
    /\ \E error \in PostgrestErrors \cup {Null} :
         LET profileError == ProfileError(user_profiles, LoginForm.user, error)
             next == AfterProfile(profileError,
                                  ProfileRole(user_profiles, LoginForm.user))
         IN  LoginForm' =
                [LoginForm EXCEPT
                   !.stage = IF next = "signOut" THEN "signOut" ELSE "idle",
                   !.outcome = IF next = "catch" THEN "error"
                               ELSE IF next = "done" THEN "ok"
                               ELSE @]
    /\ UNCHANGED << stores, handler, dashboardTable, ticketViews,
                    featureViews, session, App >>

\* LoginForm, lines 33-41, App, lines 30-34: signOut resolves; the session
\* is gone, App's listener clears the user and a fresh form is rendered,
\* while handleLogin throws "Access denied" into its catch.
SignOutReturns ==
    /\ LoginForm.stage = "signOut"
    /\ session' = Null
    /\ App' = [App EXCEPT !.user = Null]
    /\ LoginForm' = [FreshLoginForm EXCEPT !.outcome = "error"]
    /\ UNCHANGED << stores, handler, dashboardTable, ticketViews,
                    featureViews >>

\* App, lines 39-42: the logout button of the dashboard.
handleLogout ==
    /\ Rendered(App) = "dashboard"
    /\ LoginForm.stage = "idle"
    /\ session' = Null
    /\ App' = [App EXCEPT !.user = Null]
    /\ LoginForm' = FreshLoginForm
    /\ UNCHANGED << stores, handler, dashboardTable, ticketViews,
                    featureViews >>

\* --------------------------------------------------------- specifications
\* The function called by arbitrary clients.
Next ==
    \E r \in Invocations :
        \/ Preflight(r)
        \/ Invoke(r)
        \/ GetUser(r)
        \/ RoleLookup(r)
        \/ OrgLookup(r)
        \/ Enumerate(r)
        \/ DeleteUser(r)
        \/ DeleteOrg(r)
        \/ Return(r)

Spec == Init /\ [][Next]_vars

\* The same handler called strictly in sequence: a request arrives only while
\* no other is in flight, and the response of "a" stays on view while "b"
\* runs, so that whenever "b" is not idle its request came after the
\* response of "a".
Quiet == \A o \in Invocations : ~InFlight(o)

InOrder(r) == r = "a" => pc["b"] = "idle"

NextSeq ==
    \E r \in Invocations :
        \/ Quiet /\ Preflight(r)
        \/ Quiet /\ Invoke(r)
        \/ GetUser(r)
        \/ RoleLookup(r)
        \/ OrgLookup(r)
        \/ Enumerate(r)
        \/ DeleteUser(r)
        \/ DeleteOrg(r)
        \/ InOrder(r) /\ Return(r)

SpecSeq == Init /\ [][NextSeq]_vars

\* A request that may name an organization that does not exist.
InvokeAny(r) ==
    /\ \E tok \in Tokens, body \in AnyBodies : Start(r, tok, body)
    /\ UNCHANGED dashboard

\* Two such requests, each served once, in any interleaving.
NextAny ==
    \E r \in Invocations :
        \/ InvokeAny(r)
        \/ GetUser(r)
        \/ RoleLookup(r)
        \/ OrgLookup(r)
        \/ Enumerate(r)
        \/ DeleteUser(r)
        \/ DeleteOrg(r)

SpecAny == Init /\ [][NextAny]_vars

\* Two requests, each served once, in any interleaving.
NextRace ==
    \E r \in Invocations :
        \/ Invoke(r)
        \/ GetUser(r)
        \/ RoleLookup(r)
        \/ OrgLookup(r)
        \/ Enumerate(r)
        \/ DeleteUser(r)
        \/ DeleteOrg(r)

SpecRace == Init /\ [][NextRace]_vars

\* Every remote call that is awaited returns.
Fairness ==
    \A r \in Invocations :
        /\ WF_vars(GetUser(r))
        /\ WF_vars(RoleLookup(r))
        /\ WF_vars(OrgLookup(r))
        /\ WF_vars(Enumerate(r))
        /\ WF_vars(DeleteUser(r))
        /\ WF_vars(DeleteOrg(r))

SpecLive == Init /\ [][NextRace]_vars /\ Fairness

\* The dashboard and the function it invokes, the operator confirming a
\* deletion only when no earlier confirmDelete is still running.
NoConfirmPending == \A o \in Invocations : confirm[o].stage = "idle"

NextDash ==
    \/ FetchCompanies
    \/ \E company \in Orgs : handleDeleteClick(company)
    \/ onClose
    \/ DashboardWrite
    \/ \E r \in Invocations :
          \/ NoConfirmPending /\ confirmDelete(r)
          \/ GetUser(r)
          \/ RoleLookup(r)
          \/ OrgLookup(r)
          \/ Enumerate(r)
          \/ DeleteUser(r)
          \/ DeleteOrg(r)
          \/ LoseResponse(r)
          \/ InvokeReturns(r)
          \/ ErrorBodyRead(r)

SpecDash == Init /\ [][NextDash]_vars

\* A deployment that has the secret set and whose super admin belongs to no
\* customer organization.
Deployed ==
    /\ SERVICE_ROLE_KEY = "service-role-key"
    /\ \A i \in 1..Len(user_profiles) :
         user_profiles[i].user_id = SuperAdmin =>
            user_profiles[i].current_organization_id = Null

InitDeployed == Init /\ Deployed

\* The same deployment with any rows of the company in organization_features.
InitFeatures ==
    /\ InitFunction
    /\ Deployed
    /\ InitDashboard
    /\ organization_features \in FeatureTables

\* CompanyTable alone with the function: the modal's onConfirm is
\* confirmDelete itself (line 308), which starts whenever it is called with a
\* company selected, an earlier call still awaiting its invocation or not.
NextConfirm ==
    \/ FetchCompanies
    \/ \E company \in Orgs : handleDeleteClick(company)
    \/ onClose
    \/ \E r \in Invocations :
          \/ confirmDelete(r)
          \/ GetUser(r)
          \/ RoleLookup(r)
          \/ OrgLookup(r)
          \/ Enumerate(r)
          \/ DeleteUser(r)
          \/ DeleteOrg(r)
          \/ InvokeReturns(r)
          \/ ErrorBodyRead(r)

SpecConfirm == InitDeployed /\ [][NextConfirm]_vars

\* SupportTicketList alone: the filter buttons and the fetches they start.
NextTicketList ==
    \/ \E filter \in StatusFilters : setStatusFilter(filter)
    \/ \E i \in 1..MaxInFlight : FetchServed(i)
    \/ \E i \in 1..MaxInFlight : FetchReturns(i)

SpecTicketList == InitDeployed /\ [][NextTicketList]_vars

\* The statuses the operator picks in the modal's selector.
StatusChoices == {"in_progress", "resolved"}

\* The list under its initial filter with the modal of the ticket.
NextTicketModal ==
    \/ \E i \in 1..MaxInFlight : FetchServed(i)
    \/ \E i \in 1..MaxInFlight : FetchReturns(i)
    \/ \E t \in Tickets, status \in TicketStatuses :
          setSelectedTicket([id |-> t, status |-> status])
    \/ onCloseTicket
    \/ \E newStatus \in StatusChoices : handleStatusChange(newStatus)
    \/ \E i \in 1..MaxInFlight : UpdateServed(i)
    \/ \E i \in 1..MaxInFlight : UpdateReturns(i)

SpecTicketModal == InitDeployed /\ [][NextTicketModal]_vars

\* The feature modal of one company.
NextFeatures ==
    \/ handleManageFeatures(FeatureCompany)
    \/ handleCloseFeaturesModal
    \/ LoadServed
    \/ LoadReturns
    \/ \E featureKey \in SIDEBAR_FEATURES : handleToggleFeature(featureKey)
    \/ handleSave
    \/ SaveServed
    \/ SaveReturns
    \/ ToastTimeout

SpecFeatures == InitFeatures /\ [][NextFeatures]_vars

\* App with the login form.
NextLogin ==
    \/ GetSession
    \/ \E id \in Accounts, password \in BOOLEAN : handleLogin(id, password)
    \/ SignInReturns
    \/ ProfileReturns
    \/ SignOutReturns
    \/ handleLogout

SpecLogin == Init /\ [][NextLogin]_vars

\* ------------------------------------------------- vocabulary of the claims
Done(r) == pc[r] = "done" /\ req[r].method = "POST"

CallsOf(r, ops) == SelectSeq(calls[r], LAMBDA c : c.op \in ops)

\* Calls made through the privileged client.
PrivilegedOps == {"orgLookup", "enumerate", "deleteUser", "deleteOrg"}
PrivilegedCalls(r) == CallsOf(r, PrivilegedOps)

\* Reads and writes of relational tables (getUser and deleteUser go to the
\* identity provider instead).
TableOps == {"roleLookup", "orgLookup", "enumerate", "deleteOrg"}

\* What the two gate calls answered in this invocation, Null if not asked
\* or not answered with a value.
Answer(r, op) ==
    LET cs == CallsOf(r, {op}) IN IF cs = << >> THEN Null ELSE cs[1].result

CallerIdentity(r) == Answer(r, "getUser")
CallerRole(r) == Answer(r, "roleLookup")

\* The failure kinds of the error taxonomy, by the message returned.
ErrorKind(resp) ==
    CASE resp.status = 200 -> "Success"
      [] resp.error \in {MsgUnauthorized, MsgNotSuperAdmin} -> "Unauthorized"
      [] resp.error \in {MsgInvalidBody, MsgIdRequired} -> "InvalidRequest"
      [] resp.error = MsgNoKey -> "Misconfiguration"
      [] resp.error \in {MsgOrgNotFound} \cup
            {"Database Error: " \o e : e \in PostgrestErrors \cup {NoRowsError}}
            -> "NotFound"
      [] resp.error \in PostgrestErrors -> "DeletionFailed"
      [] OTHER -> "Other"

\* ------------------------------------------------------------------ claims
\* C1: privilege gate.  In every state of every execution, an invocation has
\* constructed the privileged client or issued a privileged call (organization
\* lookup, profile enumeration, account deletion, organization delete) only
\* if its caller token resolved to an identity and that identity's profile
\* role is super_admin; otherwise its count of privileged calls is zero.
C1_PrivilegeGate ==
    \A r \in Invocations :
        (supabaseAdmin[r] \/ Len(PrivilegedCalls(r)) > 0)
            => (CallerIdentity(r) # Null /\ CallerRole(r) = "super_admin")

\* A caller with role "member" has been turned away with no privileged call.
C1_Witness ==
    \E r \in Invocations :
        /\ Done(r)
        /\ CallerIdentity(r) = "m1"
        /\ CallerRole(r) = "member"
        /\ Len(PrivilegedCalls(r)) = 0
        /\ ~supabaseAdmin[r]

\* C2: an invocation whose token resolved to no identity ends Unauthorized
\* without the role lookup having been issued; one whose caller's role is
\* absent or other than super_admin ends Unauthorized.
C2_Unauthorized ==
    \A r \in Invocations :
        Done(r) =>
            /\ CallerIdentity(r) = Null =>
                  /\ response[r].status = 400
                  /\ ErrorKind(response[r]) = "Unauthorized"
                  /\ CallsOf(r, {"roleLookup"}) = << >>
            /\ (CallerIdentity(r) # Null /\ CallerRole(r) # "super_admin") =>
                  /\ response[r].status = 400
                  /\ ErrorKind(response[r]) = "Unauthorized"

\* An unresolved token has been answered Unauthorized.
C2_Witness ==
    \E r \in Invocations :
        /\ Done(r)
        /\ req[r].token = "tok_none"
        /\ Len(calls[r]) = 1
        /\ response[r] = ErrorResponse(MsgUnauthorized)

\* The request carries no usable organizationId.
BadBody(r) == req[r].body \in {Unparseable, Null, ""}

\* C3 as stated, for the requests that get as far as input validation: a
\* request whose organizationId is missing or empty, or whose body cannot be
\* parsed, fails with InvalidRequest and by then no relational table,
\* user_profiles included, has been read or written.
C3_Original ==
    \A r \in Invocations :
        (Done(r) /\ CallerRole(r) = "super_admin" /\ BadBody(r)) =>
            /\ ErrorKind(response[r]) = "InvalidRequest"
            /\ CallsOf(r, TableOps) = << >>

\* C3, amended: a request from an authenticated super_admin caller whose
\* organizationId is missing or empty, or whose body cannot be parsed, fails
\* with InvalidRequest before the privileged client exists and before any
\* privileged call; the one relational read issued by then is the caller's
\* own role lookup on user_profiles through the caller-scoped client.
C3_InvalidRequest ==
    \A r \in Invocations :
        (Done(r) /\ CallerRole(r) = "super_admin" /\ BadBody(r)) =>
            /\ response[r].status = 400
            /\ ErrorKind(response[r]) = "InvalidRequest"
            /\ ~supabaseAdmin[r]
            /\ PrivilegedCalls(r) = << >>
            /\ CallsOf(r, TableOps) =
                  << Call("roleLookup", "supabaseClient", CallerIdentity(r),
                          "super_admin") >>

\* The super admin sent an empty organizationId and got InvalidRequest.
C3_Witness ==
    \E r \in Invocations :
        /\ Done(r)
        /\ req[r].token = "tok_sa"
        /\ req[r].body = ""
        /\ response[r] = ErrorResponse(MsgIdRequired)
        /\ Len(calls[r]) = 2

\* C4: with the service-role secret absent no invocation ever holds the
\* privileged client or issues a privileged call, and a request that passed
\* authentication, authorization and input validation ends Misconfiguration.
C4_Misconfiguration ==
    \A r \in Invocations :
        SERVICE_ROLE_KEY = Null =>
            /\ ~supabaseAdmin[r]
            /\ PrivilegedCalls(r) = << >>
            /\ (Done(r) /\ CallerRole(r) = "super_admin" /\ ~BadBody(r)) =>
                  /\ response[r].status = 400
                  /\ ErrorKind(response[r]) = "Misconfiguration"

\* A valid request of the super admin met the missing secret.
C4_Witness ==
    \E r \in Invocations :
        /\ SERVICE_ROLE_KEY = Null
        /\ Done(r)
        /\ CallerRole(r) = "super_admin"
        /\ req[r].body = "org1"
        /\ response[r] = ErrorResponse(MsgNoKey)

\* C5: when the organization lookup returns an error or no row, the
\* invocation ends NotFound, and it has issued no profile enumeration, no
\* account deletion and no organization delete.
C5_NotFound ==
    \A r \in Invocations :
        (Done(r) /\ CallsOf(r, {"orgLookup"}) # << >>
                 /\ Answer(r, "orgLookup") # "row") =>
            /\ response[r].status = 400
            /\ ErrorKind(response[r]) = "NotFound"
            /\ CallsOf(r, {"enumerate", "deleteUser", "deleteOrg"}) = << >>

\* The lookup of an id that matches no row (the row was deleted before).
C5_Witness ==
    \E r \in Invocations :
        /\ Done(r)
        /\ Answer(r, "orgLookup") = NoRowsError
        /\ organizationId[r] \notin organizations
        /\ ErrorKind(response[r]) = "NotFound"
        /\ Len(calls[r]) = 3

\* The accounts linked to organization X in table user_profiles, in row
\* order, read off the table itself.
LinkedRows(X) ==
    SelectSeq(user_profiles, LAMBDA p : p.current_organization_id = X)

LinkedAccounts(X) ==
    LET rows == SelectSeq(LinkedRows(X), LAMBDA p : p.user_id # Null)
    IN  [i \in 1..Len(rows) |-> rows[i].user_id]

AllHaveUserId(X) ==
    \A i \in 1..Len(LinkedRows(X)) : LinkedRows(X)[i].user_id # Null

LastCall(r) == calls[r][Len(calls[r])]

\* C6: best-effort purge.  For an organization whose N linked profiles all
\* carry a user_id, whichever of the account deletions fail, the finished
\* invocation has issued all N deletion attempts in enumeration order, then
\* exactly one organization delete; the response is decided by that delete
\* alone: success if it returned no error, and otherwise its error, never
\* the error of an account deletion.
C6_BestEffortPurge ==
    \A r \in Invocations :
        (Done(r) /\ Answer(r, "enumerate") = "ok"
                 /\ AllHaveUserId(organizationId[r])) =>
            LET dels == CallsOf(r, {"deleteUser"})
            IN  /\ [i \in 1..Len(dels) |-> dels[i].arg]
                      = LinkedAccounts(organizationId[r])
                /\ Len(CallsOf(r, {"deleteOrg"})) = 1
                /\ LastCall(r).op = "deleteOrg"
                /\ response[r] = IF LastCall(r).result = "ok"
                                   THEN SuccessResponse
                                   ELSE ErrorResponse(LastCall(r).result)
                /\ response[r].error \notin AuthErrors

\* The first of at least two account deletions failed, a later one went
\* through, and the caller was told success.
C6_Witness ==
    \E r \in Invocations :
        LET dels == CallsOf(r, {"deleteUser"})
        IN  /\ Done(r)
            /\ AllHaveUserId(organizationId[r])
            /\ Len(dels) = MaxMembers
            /\ Len(dels) >= 2
            /\ dels[1].result \in AuthErrors
            /\ dels[Len(dels)].result = "ok"
            /\ response[r] = SuccessResponse

\* C7: when the organization delete returns an error the invocation ends
\* DeletionFailed (status 400, never success), whatever the account
\* deletions before it did.
C7_DeletionFailed ==
    \A r \in Invocations :
        (Done(r) /\ CallsOf(r, {"deleteOrg"}) # << >>
                 /\ Answer(r, "deleteOrg") # "ok") =>
            /\ response[r].status = 400
            /\ response[r] # SuccessResponse
            /\ ErrorKind(response[r]) = "DeletionFailed"

\* Every account deletion went through and the organization delete failed.
C7_Witness ==
    \E r \in Invocations :
        LET dels == CallsOf(r, {"deleteUser"})
        IN  /\ Done(r)
            /\ Len(dels) >= 2
            /\ \A i \in 1..Len(dels) : dels[i].result = "ok"
            /\ Answer(r, "deleteOrg") \in PostgrestErrors
            /\ ErrorKind(response[r]) = "DeletionFailed"

NoCallFailed(r) ==
    \A i \in 1..Len(calls[r]) :
        calls[r][i].result \notin
            PostgrestErrors \cup AuthErrors \cup {NoRowsError, Null}

\* C9: for an authorized caller and an existing organization with no linked
\* profile, the invocation issues no account deletion; with the secret
\* configured and no remote call failing it ends in success, the
\* organization row gone.
C9_ZeroProfiles ==
    \A r \in Invocations :
        (CallerRole(r) = "super_admin" /\ Answer(r, "orgLookup") = "row"
            /\ LinkedRows(organizationId[r]) = << >>) =>
            /\ CallsOf(r, {"deleteUser"}) = << >>
            /\ (Done(r) /\ NoCallFailed(r)) =>
                  /\ response[r] = SuccessResponse
                  /\ organizationId[r] \notin organizations

\* org2, which has no linked profile, was deprovisioned.
C9_Witness ==
    \E r \in Invocations :
        /\ Done(r)
        /\ organizationId[r] = "org2"
        /\ LinkedRows("org2") = << >>
        /\ NoCallFailed(r)
        /\ Len(calls[r]) = 5
        /\ response[r] = SuccessResponse

\* C10: two calls in sequence for the same organization id by an authorized
\* caller (specification SpecSeq: "b" is called after "a" has answered),
\* the first finding the organization and its organization delete not
\* failing: the first ends in success, the second ends NotFound and has
\* issued no enumeration, no account deletion and no organization delete.
C10_TwiceInSequence ==
    (/\ \A r \in Invocations : Done(r) /\ CallerRole(r) = "super_admin"
     /\ ~BadBody("a")
     /\ req["b"].body = req["a"].body
     /\ Answer("a", "orgLookup") = "row"
     /\ Answer("a", "deleteOrg") = "ok") =>
        /\ response["a"] = SuccessResponse
        /\ response["b"].status = 400
        /\ ErrorKind(response["b"]) = "NotFound"
        /\ CallsOf("b", {"enumerate", "deleteUser", "deleteOrg"}) = << >>

\* org1 deprovisioned with its accounts, then asked for again: no row.
C10_Witness ==
    /\ \A r \in Invocations : Done(r) /\ req[r].token = "tok_sa"
    /\ req["a"].body = "org1"
    /\ req["b"].body = "org1"
    /\ response["a"] = SuccessResponse
    /\ Len(CallsOf("a", {"deleteUser"})) >= 2
    /\ Answer("b", "orgLookup") = NoRowsError
    /\ ErrorKind(response["b"]) = "NotFound"

\* Steps 1-5 passed: the caller was authenticated and authorized, the body
\* named an organization, the privileged client was built and the
\* organization lookup returned the row.
StepsPassed(r) ==
    /\ CallerIdentity(r) # Null
    /\ CallerRole(r) = "super_admin"
    /\ ~BadBody(r)
    /\ supabaseAdmin[r]
    /\ Answer(r, "orgLookup") = "row"

\* The invocation did what success stands for.
Deprovisioned(r) == StepsPassed(r) /\ Answer(r, "deleteOrg") = "ok"

\* C11: a finished invocation has answered HTTP 200 with the body
\* { message: "Organization and associated accounts deleted successfully" }
\* exactly when steps 1-5 passed and the organization delete call returned no
\* error; in every other case it has answered neither status 200 nor a
\* message.
C11_SuccessResponse ==
    \A r \in Invocations :
        Done(r) =>
            IF Deprovisioned(r)
              THEN /\ response[r].status = 200
                   /\ response[r].message =
                        "Organization and associated accounts deleted successfully"
                   /\ response[r].error = Null
              ELSE /\ response[r].status # 200
                   /\ response[r].message = Null

\* The super admin deprovisioned an organization with two linked profiles:
\* both account deletions and the organization delete succeeded.
C11_Witness ==
    \E r \in Invocations :
        LET dels == CallsOf(r, {"deleteUser"})
        IN  /\ Done(r)
            /\ CallerRole(r) = "super_admin"
            /\ Len(LinkedRows(organizationId[r])) = 2
            /\ Len(dels) = 2
            /\ \A i \in 1..2 : dels[i].result = "ok"
            /\ Answer(r, "deleteOrg") = "ok"
            /\ response[r].status = 200
            /\ response[r].message =
                 "Organization and associated accounts deleted successfully"

\* The kinds of failure of the error taxonomy.
FailureKinds == {"Unauthorized", "InvalidRequest", "Misconfiguration",
                 "NotFound", "DeletionFailed"}

\* C12: every finished invocation that failed, whatever the kind of the
\* failure, has answered status 400 with a body that carries an error
\* message and a details field; every answer is 200 or 400, and 200 is
\* given to no failure.
C12_FailureEnvelope ==
    \A r \in Invocations :
        Done(r) =>
            /\ response[r].status \in {200, 400}
            /\ response[r].status = 200 => Deprovisioned(r)
            /\ ~Deprovisioned(r) =>
                  /\ response[r].status = 400
                  /\ ErrorKind(response[r]) \in FailureKinds
                  /\ response[r].error # Null
                  /\ response[r].details # Null

\* Two failures of different kinds, Unauthorized and DeletionFailed, were
\* both answered with status 400.
C12_Witness ==
    /\ \A r \in Invocations : Done(r) /\ response[r].status = 400
    /\ ErrorKind(response["a"]) = "Unauthorized"
    /\ response["a"].error = "Unauthorized"
    /\ ErrorKind(response["b"]) = "DeletionFailed"
    /\ response["b"].details = "Check Supabase Function Logs for more info"

\* The position of each remote call in the order authenticate, authorize,
\* resolve organization, enumerate profiles, delete account, delete
\* organization.
OpRank(op) ==
    CASE op = "getUser" -> 1
      [] op = "roleLookup" -> 2
      [] op = "orgLookup" -> 3
      [] op = "enumerate" -> 4
      [] op = "deleteUser" -> 5
      [] op = "deleteOrg" -> 6
      [] OTHER -> 0

\* The accounts of the enumeration result for which a deletion is due.
Attempts(rows) == SelectSeq(rows, LAMBDA u : u # Null)

\* C13 (specification SpecRace): the calls an invocation has issued so far
\* are, in order,
\* authenticate, authorize, resolve organization, enumerate, the account
\* deletions in enumeration order and the organization delete, none left out
\* before a later one except that the deletions may be none; the one call in
\* flight is the next of that order, issued after all the recorded ones have
\* returned; and the organization delete is issued only when a deletion
\* attempt has returned for every enumerated account.
C13_Sequential ==
    \A r \in Invocations :
        LET cs == calls[r]
            dels == CallsOf(r, {"deleteUser"})
        IN  /\ Len(cs) > 0 => cs[1].op = "getUser"
            /\ \A i \in 1..(Len(cs) - 1) :
                 \/ OpRank(cs[i + 1].op) = OpRank(cs[i].op) + 1
                 \/ cs[i].op = "deleteUser" /\ cs[i + 1].op = "deleteUser"
                 \/ cs[i].op = "enumerate" /\ cs[i + 1].op = "deleteOrg"
            /\ \A i \in 1..Len(dels) :
                 /\ i <= Len(Attempts(users[r]))
                 /\ dels[i].arg = Attempts(users[r])[i]
            /\ (InFlight(r) /\ Len(cs) > 0) =>
                 \/ OpRank(pc[r]) > OpRank(cs[Len(cs)].op)
                 \/ pc[r] = "deleteUser" /\ cs[Len(cs)].op = "deleteUser"
            /\ (pc[r] = "deleteOrg" \/ CallsOf(r, {"deleteOrg"}) # << >>) =>
                 Len(dels) = Len(Attempts(users[r]))

\* All six kinds of call were issued, two account deletions among them, and
\* the organization delete is the last.
C13_Witness ==
    \E r \in Invocations :
        /\ Done(r)
        /\ [i \in 1..Len(calls[r]) |-> calls[r][i].op] =
              << "getUser", "roleLookup", "orgLookup", "enumerate",
                 "deleteUser", "deleteUser", "deleteOrg" >>
        /\ calls[r][5].arg = "m1"
        /\ calls[r][6].arg = "m2"

\* No remote call of the invocation failed for a reason of its own: the only
\* errors are those of a row or an account that is already gone.
NoUnrelatedFailure(r) ==
    \A i \in 1..Len(calls[r]) :
        calls[r][i].result \notin PostgrestErrors \cup {AuthFailure, Null}

\* C14 (specification SpecRace: two requests, any interleaving): when both
\* invocations of an authorized caller for the same existing organization id
\* have finished, the secret being configured and no call having failed for
\* an unrelated reason, each has ended in success or in NotFound, at least
\* one in success, and neither the organization row nor any of its linked
\* identity accounts is left.
C14_ConcurrentDuplicates ==
    (/\ \A r \in Invocations :
          Done(r) /\ CallerRole(r) = "super_admin" /\ NoUnrelatedFailure(r)
     /\ SERVICE_ROLE_KEY \notin {Null, ""}
     /\ ~BadBody("a")
     /\ req["b"].body = req["a"].body) =>
        LET X == req["a"].body
        IN  /\ \A r \in Invocations :
                 ErrorKind(response[r]) \in {"Success", "NotFound"}
            /\ \E r \in Invocations : response[r] = SuccessResponse
            /\ X \notin organizations
            /\ \A i \in 1..Len(LinkedAccounts(X)) :
                 LinkedAccounts(X)[i] \notin authUsers

\* The two invocations raced: both found the organization, one of them met
\* an account the other had already deleted, and both answered success.
C14_Witness ==
    /\ \A r \in Invocations : Done(r) /\ NoUnrelatedFailure(r)
    /\ req["a"].body = "org1"
    /\ req["b"].body = "org1"
    /\ \A r \in Invocations : response[r] = SuccessResponse
    /\ \E r \in Invocations :
         \E i \in 1..Len(calls[r]) :
            calls[r][i].op = "deleteUser" /\ calls[r][i].result = AuthError
    /\ \E r \in Invocations :
         \E i \in 1..Len(calls[r]) :
            calls[r][i].op = "deleteUser" /\ calls[r][i].result = "ok"

\* How often `x` occurs in sequence `seq`.
Occurrences(seq, x) == Cardinality({ i \in 1..Len(seq) : seq[i] = x })

\* C15 (specification SpecRace): no retries.  An invocation has issued at most one authentication,
\* one role lookup, one organization lookup, one enumeration and one
\* organization delete, and for each account no more deletion attempts than
\* the enumeration returned profiles of it, whatever failed.
C15_NoRetries ==
    \A r \in Invocations :
        /\ \A op \in {"getUser", "roleLookup", "orgLookup", "enumerate",
                      "deleteOrg"} : Len(CallsOf(r, {op})) <= 1
        /\ LET dels == CallsOf(r, {"deleteUser"})
               args == [i \in 1..Len(dels) |-> dels[i].arg]
           IN  \A u \in Accounts :
                  Occurrences(args, u) <= Occurrences(users[r], u)

\* An account deletion and the organization delete both failed, and the
\* invocation ended with one attempt per account and one organization
\* delete.
C15_Witness ==
    \E r \in Invocations :
        LET dels == CallsOf(r, {"deleteUser"})
        IN  /\ Done(r)
            /\ Len(dels) >= 2
            /\ Len(dels) = Len(Attempts(users[r]))
            /\ dels[1].result = AuthFailure
            /\ Len(CallsOf(r, {"deleteOrg"})) = 1
            /\ Answer(r, "deleteOrg") \in PostgrestErrors
            /\ response[r].status = 400

\* This step is the return of the organization delete of invocation r,
\* without error: the last step of the deprovisioning workflow.
FinalDeleteStep(r) ==
    /\ pc[r] = "deleteOrg"
    /\ pc'[r] = "done"
    /\ Len(calls'[r]) = Len(calls[r]) + 1
    /\ calls'[r][Len(calls'[r])].op = "deleteOrg"
    /\ calls'[r][Len(calls'[r])].result = "ok"
    /\ organizations' = organizations \ {organizationId[r]}

\* C16 (specification SpecDash: the dashboard and the function): a step that
\* changes the rows of table organizations is the final delete step of an
\* invocation of the function and leaves the dashboard's own state as it
\* was; no step of the dashboard (company table, feature save, ticket and
\* error-log updates) removes an organization row.
C16_SoleWriter ==
    [][ organizations' # organizations =>
          /\ \E r \in Invocations : FinalDeleteStep(r)
          /\ UNCHANGED dashboard ]_vars

\* The dashboard has written one of its tables, a deletion confirmed from
\* the company table is being served, and the function has removed the row.
C16_Witness ==
    \E r \in Invocations :
        /\ lastWrite # Null
        /\ confirm[r].stage = "invoked"
        /\ Done(r)
        /\ response[r] = SuccessResponse
        /\ confirm[r].companyToDelete \notin organizations
        /\ organizations # Orgs

PcRank(p) ==
    CASE p = "idle" -> 0
      [] p = "getUser" -> 1
      [] p = "roleLookup" -> 2
      [] p = "orgLookup" -> 3
      [] p = "enumerate" -> 4
      [] p = "deleteUser" -> 5
      [] p = "deleteOrg" -> 6
      [] p = "done" -> 7
      [] OTHER -> 0

Terminal(r) == pc[r] = "done" /\ response[r].status \in {200, 400}

\* One step of invocation r goes forward: to a later position, or to the
\* next account within the purge; in a terminal state nothing changes.
Forward(r) ==
    /\ pc'[r] # pc[r] => PcRank(pc'[r]) > PcRank(pc[r])
    /\ (pc'[r] = pc[r] /\ calls'[r] # calls[r]) =>
          /\ pc[r] = "deleteUser"
          /\ idx'[r] > idx[r]
    /\ pc[r] = "done" =>
          /\ pc'[r] = "done"
          /\ calls'[r] = calls[r]
          /\ response'[r] = response[r]

\* C18 (specification SpecLive: every awaited remote call returns): each
\* invocation moves only forward through the positions of the workflow or
\* short-circuits to a terminal error; once started it eventually reaches a
\* terminal state, and there it stays, with one response and no further
\* remote call.
C18_ForwardAndTerminates ==
    /\ [][\A r \in Invocations : Forward(r)]_vars
    /\ \A r \in Invocations : (pc[r] # "idle") ~> Terminal(r)

\* One invocation went all the way to Done while the other short-circuited
\* to a terminal error.
C18_Witness ==
    \E r, o \in Invocations :
        /\ Terminal(r)
        /\ response[r].status = 200
        /\ Len(CallsOf(r, {"deleteUser"})) >= 2
        /\ Terminal(o)
        /\ response[o].status = 400
        /\ Len(calls[o]) <= 3

\* C19 (specification SpecRace): every authentication and role lookup was
\* issued through the
\* caller-scoped client, every organization lookup, enumeration, account
\* deletion and organization delete through the privileged client; the
\* privileged client does not exist while the caller is being authenticated
\* and authorized, and no deletion went through the caller-scoped client.
C19_TwoClients ==
    \A r \in Invocations :
        /\ \A i \in 1..Len(calls[r]) :
             LET c == calls[r][i]
             IN  /\ c.op \in {"getUser", "roleLookup"} =>
                        c.client = "supabaseClient"
                 /\ c.op \in PrivilegedOps =>
                        c.client = "supabaseAdmin" /\ supabaseAdmin[r]
                 /\ c.client = "supabaseClient" =>
                        c.op \notin {"deleteUser", "deleteOrg"}
                 /\ c.client \in {"supabaseClient", "supabaseAdmin"}
        /\ pc[r] \in {"getUser", "roleLookup"} => ~supabaseAdmin[r]

\* An invocation has used both clients: the caller-scoped one twice, the
\* privileged one for the lookup, the enumeration, a deletion and the
\* organization delete.
C19_Witness ==
    \E r \in Invocations :
        /\ Done(r)
        /\ Len(CallsOf(r, {"getUser", "roleLookup"})) = 2
        /\ \A op \in PrivilegedOps : CallsOf(r, {op}) # << >>
        /\ calls[r][1].client = "supabaseClient"
        /\ calls[r][Len(calls[r])].client = "supabaseAdmin"

\* The ids of the list displayed.
Displayed(list) == { list[i] : i \in 1..Len(list) }

\* C20 (specification SpecDash).  CompanyTable.confirmDelete: at the step
\* where the delete-account invocation returns, if it returned without error
\* the company is no longer in the displayed list, the modal is closed, the
\* selection is cleared and confirmDelete has finished; if it returned an
\* error, that step and the one that finishes confirmDelete leave the list,
\* the modal and the selection as they were; and whenever confirmDelete
\* finishes, isDeleting is false.
C20_ConfirmDelete ==
    [][ \A r \in Invocations :
          /\ (confirm[r].stage = "invoked" /\ confirm'[r].stage # "invoked") =>
                IF response[r].status = 200
                  THEN /\ confirm[r].companyToDelete \notin Displayed(companies')
                       /\ ~deleteModalOpen'
                       /\ companyToDelete' = Null
                       /\ confirm'[r].stage = "idle"
                  ELSE /\ companies' = companies
                       /\ deleteModalOpen' = deleteModalOpen
                       /\ companyToDelete' = companyToDelete
          /\ (confirm[r].stage = "failed" /\ confirm'[r].stage # "failed") =>
                /\ companies' = companies
                /\ deleteModalOpen' = deleteModalOpen
                /\ companyToDelete' = companyToDelete
          /\ (confirm[r].stage # "idle" /\ confirm'[r].stage = "idle") =>
                ~isDeleting' ]_vars

\* org1 was deleted from the table: the function removed the row, and the
\* list shows org2 only, the modal closed, nothing selected.
C20_Witness ==
    /\ ~loading
    /\ NoConfirmPending
    /\ "org1" \notin organizations
    /\ companies = << "org2" >>
    /\ ~deleteModalOpen
    /\ companyToDelete = Null
    /\ ~isDeleting

\* The account ids an invocation has passed to deleteUser, in order.
DeleteArgs(r) ==
    LET dels == CallsOf(r, {"deleteUser"})
    IN  [i \in 1..Len(dels) |-> dels[i].arg]

\* Account `u` is linked to organization X by a profile row.
LinkedTo(X, u) ==
    \E j \in 1..Len(LinkedRows(X)) : LinkedRows(X)[j].user_id = u

\* C21 (specification SpecRace): every account deletion an invocation issues
\* is for a non-empty user_id of a profile linked to the target organization;
\* once the purge is over (the enumeration having succeeded) the deletions
\* issued are, one each and in row order, exactly the linked profiles that
\* carry a user_id, those without being skipped; and no account that no
\* profile links to an organization is ever removed.
C21_ExactPurge ==
    /\ \A r \in Invocations :
         LET X == organizationId[r]
             args == DeleteArgs(r)
         IN  /\ \A i \in 1..Len(args) :
                  args[i] \notin {Null, ""} /\ LinkedTo(X, args[i])
             /\ (Answer(r, "enumerate") = "ok"
                   /\ (pc[r] = "deleteOrg" \/ CallsOf(r, {"deleteOrg"}) # << >>))
                  => args = LinkedAccounts(X)
    /\ \A u \in Accounts \ authUsers : \E X \in Orgs : LinkedTo(X, u)

\* The purge of an organization one of whose profile rows has no user_id:
\* that row was skipped, every other row got its deletion.
C21_Witness ==
    \E r \in Invocations :
        /\ Done(r)
        /\ Answer(r, "enumerate") = "ok"
        /\ ~AllHaveUserId(organizationId[r])
        /\ Len(DeleteArgs(r)) = Len(LinkedRows(organizationId[r])) - 1
        /\ Len(DeleteArgs(r)) >= 2

\* The failure of the earliest of the fail-fast steps that does not pass:
\* authenticate and authorize, validate input, check secret, resolve
\* organization; "none" when all pass.
EarliestFailure(r) ==
    IF CallerIdentity(r) = Null \/ CallerRole(r) # "super_admin"
      THEN "Unauthorized"
    ELSE IF BadBody(r) THEN "InvalidRequest"
    ELSE IF SERVICE_ROLE_KEY \in {Null, ""} THEN "Misconfiguration"
    ELSE IF Answer(r, "orgLookup") # "row" THEN "NotFound"
    ELSE "none"

\* C22 (specification SpecAny): a finished invocation for which one or more
\* fail-fast conditions hold has reported the failure of the earliest step
\* in the order authenticate, authorize, validate input, check secret,
\* resolve organization, whatever the later conditions are.
C22_EarliestFailure ==
    \A r \in Invocations :
        (Done(r) /\ EarliestFailure(r) # "none") =>
            ErrorKind(response[r]) = EarliestFailure(r)

\* A member who sent no organizationId was told Unauthorized, and the super
\* admin asking for an organization that does not exist, the secret being
\* absent, was told Misconfiguration.
C22_Witness ==
    /\ SERVICE_ROLE_KEY = Null
    /\ Done("a")
    /\ req["a"].token = "tok_m1"
    /\ req["a"].body = Null
    /\ ErrorKind(response["a"]) = "Unauthorized"
    /\ Done("b")
    /\ req["b"].token = "tok_sa"
    /\ req["b"].body = UnknownOrg
    /\ UnknownOrg \notin organizations
    /\ ErrorKind(response["b"]) = "Misconfiguration"

\* The invocation ended at one of the fail-fast steps.
FailedFast(r) ==
    /\ Done(r)
    /\ ErrorKind(response[r]) \in
          {"Unauthorized", "InvalidRequest", "Misconfiguration", "NotFound"}

\* This step is the return of a deletion call of an invocation that had
\* passed steps 1-5.
DeletionStep(r) ==
    /\ StepsPassed(r)
    /\ Len(calls'[r]) = Len(calls[r]) + 1
    /\ calls'[r][Len(calls'[r])].op \in {"deleteUser", "deleteOrg"}

\* C23 (specification SpecAny): an invocation that ended Unauthorized,
\* InvalidRequest, Misconfiguration or NotFound has issued no account
\* deletion and no organization delete, and when it ran alone the identity
\* accounts and the organization rows are those of its start; the accounts
\* and the organization rows change only at the return of a deletion call of
\* an invocation that passed steps 1-5.
C23_FailFastFrame ==
    /\ [](\A r \in Invocations :
            FailedFast(r) =>
               /\ CallsOf(r, {"deleteUser", "deleteOrg"}) = << >>
               /\ (\A o \in Invocations \ {r} : pc[o] = "idle") =>
                     (authUsers = Accounts /\ organizations = Orgs))
    /\ [][ (authUsers' # authUsers \/ organizations' # organizations) =>
              \E r \in Invocations : DeletionStep(r) ]_vars

\* Alone, the super admin asked for an organization that does not exist:
\* NotFound after three calls, every account and every row still there.
C23_Witness ==
    /\ pc["b"] = "idle"
    /\ FailedFast("a")
    /\ CallerRole("a") = "super_admin"
    /\ ErrorKind(response["a"]) = "NotFound"
    /\ Len(calls["a"]) = 3
    /\ authUsers = Accounts
    /\ organizations = Orgs

\* No other invocation has removed the organization that r targets.
NotDeletedByOther(r) ==
    \A o \in Invocations \ {r} :
        organizationId[o] # organizationId[r] \/ Answer(o, "deleteOrg") # "ok"

\* C24 (specification SpecRace): no rollback.  When an invocation has ended
\* DeletionFailed, every account whose deletion it saw succeed is still
\* deleted and, unless another invocation removed it, the organization row
\* is still there; and an invocation that answered success has had its
\* organization delete return without error.
C24_NoRollback ==
    \A r \in Invocations :
        Done(r) =>
            /\ ErrorKind(response[r]) = "DeletionFailed" =>
                  /\ DeletedBy(r) \cap authUsers = {}
                  /\ NotDeletedByOther(r) => organizationId[r] \in organizations
            /\ response[r].status = 200 => Answer(r, "deleteOrg") = "ok"

\* Organization present, linked identity accounts removed: the state left
\* by an invocation whose organization delete failed.
C24_Witness ==
    \E r \in Invocations :
        LET X == organizationId[r]
        IN  /\ Done(r)
            /\ ErrorKind(response[r]) = "DeletionFailed"
            /\ X \in organizations
            /\ Len(LinkedAccounts(X)) >= 2
            /\ \A i \in 1..Len(LinkedAccounts(X)) :
                 LinkedAccounts(X)[i] \notin authUsers

\* C25 (specification SpecRace), as stated: no invocation passes the user id
\* of its own caller to the account-deletion call.
C25_CallerSurvives ==
    \A r \in Invocations :
        \A i \in 1..Len(DeleteArgs(r)) : DeleteArgs(r)[i] # CallerIdentity(r)

\* The super admin, whose own profile points at the organization, has
\* deprovisioned it and the super admin's account is gone.
C25_Witness ==
    \E r \in Invocations :
        /\ Done(r)
        /\ CallerIdentity(r) = SuperAdmin
        /\ LinkedTo(organizationId[r], SuperAdmin)
        /\ SuperAdmin \in DeletedBy(r)
        /\ SuperAdmin \notin authUsers
        /\ response[r] = SuccessResponse

\* C26 (specification SpecConfirm), as stated.  CompanyTable: once every
\* confirmDelete has finished, the displayed list holds none of the companies
\* whose delete-account invocation succeeded (in SpecConfirm the function is
\* the only writer of organizations and every response reaches the table, so
\* these are the companies whose row is gone).
C26_NoReinsert ==
    (~loading /\ NoConfirmPending) =>
        \A c \in Displayed(companies) : c \in organizations

\* Both companies were deleted, the second confirmed while the first
\* invocation was in flight; both invocations succeeded and the table
\* displays one of them again.
C26_Witness ==
    /\ ~loading
    /\ NoConfirmPending
    /\ ~isDeleting
    /\ organizations = {}
    /\ companies # << >>

\* C27 (specification SpecTicketModal), as stated.  TicketDetailModal: at the
\* step in which the last update the open modal awaits returns, the status
\* shown in the selector is the status persisted for the ticket.
C27_ShownIsPersisted ==
    [][ \A i \in 1..MaxInFlight :
          (/\ UpdateReturns(i)
           /\ TicketDetailModal.updates[i].mounted
           /\ TicketDetailModal'.updates = << >>) =>
              TicketDetailModal'.status =
                 support_tickets'[TicketDetailModal.updates[i].ticket.id] ]_vars

\* The modal was opened on the open ticket; in_progress was persisted, no
\* update is in flight and the selector shows open again.
C27_Witness ==
    /\ SupportTicketList.selectedTicket = [id |-> "t1", status |-> "open"]
    /\ TicketDetailModal.updates = << >>
    /\ support_tickets["t1"] = "in_progress"
    /\ TicketDetailModal.status = "open"

\* C28 (specification SpecTicketList), as stated.  SupportTicketList: once
\* every fetch has returned, the one issued last (for the filter now
\* selected) without error, the tickets displayed are the rows that fetch
\* returned.
C28_LatestFilterWins ==
    (/\ SupportTicketList.fetches = << >>
     /\ SupportTicketList.lastFetch.stage = "served"
     /\ SupportTicketList.lastFetch.error = Null) =>
        SupportTicketList.tickets = SupportTicketList.lastFetch.data

\* Filter `closed` is selected, its fetch returned no row, nothing is in
\* flight, and the open ticket is displayed.
C28_Witness ==
    /\ SupportTicketList.statusFilter = "closed"
    /\ SupportTicketList.fetches = << >>
    /\ SupportTicketList.lastFetch.filter = "closed"
    /\ SupportTicketList.lastFetch.error = Null
    /\ SupportTicketList.lastFetch.data = << >>
    /\ SupportTicketList.tickets = << [id |-> "t1", status |-> "open"] >>

\* C29 (specification SpecFeatures), as stated.  FeatureManagementModal: when
\* loadFeatures returns, every key of SIDEBAR_FEATURES with a row among those
\* received takes the row's is_enabled and every other key is enabled;
\* toggling a key flips that key and leaves the others as they were; and
\* handleSave, whenever it is invoked, sends one row per key of
\* SIDEBAR_FEATURES whose is_enabled is the state of the key's checkbox.
C29_FeatureEditing ==
    [][ LET view == FeatureManagementModal.modal
            after == FeatureManagementModal'.modal
        IN  /\ LoadReturns =>
                 /\ DOMAIN after.enabledFeatures = SIDEBAR_FEATURES
                 /\ \A k \in SIDEBAR_FEATURES :
                      LET rows == { row \in FeatureManagementModal.load.data :
                                      row.feature_key = k }
                      IN  IF rows = {} THEN after.enabledFeatures[k]
                          ELSE \A row \in rows :
                                 after.enabledFeatures[k] = row.is_enabled
            /\ \A featureKey \in SIDEBAR_FEATURES :
                 handleToggleFeature(featureKey) =>
                    \A k \in SIDEBAR_FEATURES :
                       Checked(after.enabledFeatures, k) =
                          IF k = featureKey
                            THEN ~Checked(view.enabledFeatures, k)
                            ELSE Checked(view.enabledFeatures, k)
            /\ handleSave =>
                 FeatureManagementModal'.save.rows =
                    { FeatureRow(k, Checked(view.enabledFeatures, k)) :
                        k \in SIDEBAR_FEATURES } ]_vars

\* Save was pressed while loadFeatures was still awaited: an upsert without
\* rows is in flight.
C29_Witness ==
    /\ FeatureManagementModal.modal.company = FeatureCompany
    /\ FeatureManagementModal.modal.loading
    /\ FeatureManagementModal.load.stage # "none"
    /\ FeatureManagementModal.save.stage = "sent"
    /\ FeatureManagementModal.save.mounted
    /\ FeatureManagementModal.save.rows = {}

\* C30 (specification SpecLogin), as stated.  App renders the dashboard only
\* while the profile of the signed-in user has role super_admin, and after a
\* login attempt that ended with an error there is no session and App does
\* not render the dashboard.
C30_DashboardGate ==
    /\ Rendered(App) = "dashboard" =>
          ProfileRole(user_profiles, App.user) = "super_admin"
    /\ (LoginForm.stage = "idle" /\ LoginForm.outcome = "error") =>
          (session = Null /\ Rendered(App) # "dashboard")

\* A member signed in, the lookup of the member's profile failed and
\* handleLogin ended in its catch: the session is the member's and App
\* renders the dashboard.
C30_Witness ==
    /\ LoginForm.stage = "idle"
    /\ LoginForm.outcome = "error"
    /\ session \in Members
    /\ App.user = session
    /\ ProfileRole(user_profiles, session) = "member"
    /\ Rendered(App) = "dashboard"

TypeOK ==
    /\ organizations \subseteq Orgs
    /\ authUsers \subseteq Accounts
    /\ \A r \in Invocations :
         pc[r] \in {"idle", "getUser", "roleLookup", "orgLookup", "enumerate",
                    "deleteUser", "deleteOrg", "done"}

====
